---------------------------- MODULE Spec2Model ----------------------------
(***************************************************************************)
(* A model of nvdiffrast/torch/ops.py: the Python front end of the         *)
(* differentiable rasterizer.  Three specifications share the module:      *)
(*   Spec     the OpenGL context life cycle and rasterize() / its backward  *)
(*   SpecTex  texture(), texture_construct_mip() and the texture backward   *)
(*   SpecAA   antialias() forward / backward pairs                          *)
(* Python values are written as strings ("True", "False", "None", ...)     *)
(* so that an argument of the wrong type is an input like any other.       *)
(* The native plugin (the C++/CUDA side) is not part of ops.py; what the   *)
(* model needs of it is written from the design document and kept in the   *)
(* definitions whose names start with Native.                              *)
(***************************************************************************)
EXTENDS Integers, Sequences, FiniteSets, TLC

VARIABLES
    glctx,      \* created RasterizeGLContext objects: Seq of [output_db, mode,
                \* automatic (the flag held by the object's native wrapper)]
    bindings,   \* native state: set of <<context id, thread>> currently bound
    held,       \* per thread: contexts acquired by set_context and not yet released
    pc,         \* per thread: "idle" or "raster" (inside rasterize_fwd)
    frame,      \* per thread: the rasterize call in progress
    last,       \* the most recently completed operation and its outcome
    tape,       \* saved state of the latest successful _rasterize_func.forward
    texPc,      \* "idle", "called" (texture() has returned or raised), "backward"
    texMip,     \* the mipmap stack the caller holds from texture_construct_mip
    texArgs,    \* the arguments of the latest texture() call
    texRes,     \* what that call did (see Texture)
    texGrad,    \* what its backward did (see TextureBackward)
    aaHash,     \* the topology hash the caller holds
    aaRaised,   \* whether the latest antialias() call raised
    aaFwd,      \* per forward call, in call order: what it was given and produced
    aaCtx,      \* per forward call: the state saved for its backward
    aaBwd,      \* per forward call: what its backward did (NoBwd: not run yet)
    itpPc,      \* interpolate(): "idle", "called" or "backward"
    itpArgs,    \* the arguments of the interpolate() call on record
    itpRes,     \* what that call did (see Interpolate)
    itpGrad     \* what its backward did (see InterpolateBackward)

ctxVars == <<glctx, bindings, held, pc, frame, last, tape>>

texVars == <<texPc, texMip, texArgs, texRes, texGrad>>

aaVars == <<aaHash, aaRaised, aaFwd, aaCtx, aaBwd>>

itpVars == <<itpPc, itpArgs, itpRes, itpGrad>>

vars == <<ctxVars, texVars, aaVars, itpVars>>

----------------------------------------------------------------------------
(* Bounds *)

NumThreads == 2
MaxCtx == 2

Threads == 1..NumThreads

----------------------------------------------------------------------------
(* RasterizeGLContext and rasterize(): the Python side *)

OutputDbInputs == {"True", "False", "None"}
ModeInputs == {"automatic", "manual", "auto"}
GradDbInputs == {"True", "False", "None"}

\* assert output_db is True or output_db is False
ValidOutputDb(output_db) == output_db \in {"True", "False"}

\* assert mode in ['automatic', 'manual']
ValidMode(mode) == mode \in {"automatic", "manual"}

\* (variant: the mode string itself, which is always truthy, is passed)
WrapperAutomatic_Truthy(mode) == TRUE

\* RasterizeGLStateWrapper(output_db, mode == 'automatic'): the flag the native
\* wrapper is constructed with
WrapperAutomatic(mode) == mode = "automatic"

\* (variant: the mode is not checked)
AssertManual_AnyMode(mode) == mode \in {"automatic", "manual"}

\* assert self.mode == 'manual'   (set_context and release_context)
AssertManual(mode) == mode = "manual"

\* assert grad_db is True or grad_db is False
ValidGradDb(grad_db) == grad_db \in {"True", "False"}

\* (variant: the context's output_db is not consulted)
EffectiveGradDb_Requested(grad_db, output_db) == grad_db

\* grad_db = grad_db and glctx.output_db   (Python's `and` on two bools)
EffectiveGradDb(grad_db, output_db) == IF grad_db = "True" THEN output_db ELSE grad_db

\* _rasterize_func.backward: which native gradient function runs
BackwardPath(saved_grad_db) ==
    IF saved_grad_db = "True" THEN "rasterize_grad_db" ELSE "rasterize_grad"

----------------------------------------------------------------------------
(* The native context wrapper (RasterizeGLStateWrapper, rasterize_fwd) *)

\* contexts bound on thread t
BoundOn(b, t) == {c \in 1..MaxCtx : <<c, t>> \in b}

\* (variant: binding is never refused)
NativeCanBind_Always(b, t, c) == TRUE

\* a context may be bound on t when t holds no context and no thread holds c
NativeCanBind(b, t, c) ==
    /\ BoundOn(b, t) = {}
    /\ \A u \in Threads : <<c, u>> \notin b

NativeBind(b, t, c) == b \cup {<<c, t>>}

NativeUnbind(b, t, c) == b \ {<<c, t>>}

\* release is accepted only for the context bound on the calling thread
NativeCanRelease(b, t, c) == <<c, t>> \in b

\* rasterize_fwd entry: manual contexts must already be bound on the caller,
\* automatic ones are bound by the call
NativeCanEnter(b, t, c, automatic) ==
    IF automatic THEN NativeCanBind(b, t, c) ELSE <<c, t>> \in b

NativeEnter(b, t, c, automatic) ==
    IF automatic THEN NativeBind(b, t, c) ELSE b

\* (variant: the release is skipped when the call raises)
NativeExit_LeakOnError(b, t, c, automatic, ok) ==
    IF automatic /\ ok THEN NativeUnbind(b, t, c) ELSE b

\* rasterize_fwd exit: an automatic context is released on every exit path
NativeExit(b, t, c, automatic, ok) ==
    IF automatic THEN NativeUnbind(b, t, c) ELSE b

----------------------------------------------------------------------------
(* texture() and texture_construct_mip(): the Python side *)

\* the default written for max_mip_level=None
NoMipLimit == -1

\* largest whole max_mip_level the callers pass
MaxMipLevel == 2

Tensors == {"texA", "texB", "uv", "uv_da"}

TexInputs == {"texA", "texB", "list"}
UvDaInputs == {"None", "uv_da", "list"}
FilterModeInputs ==
    {"auto", "nearest", "linear", "linear-mipmap-nearest", "linear-mipmap-linear",
     "cubic", "mipmap"}
BoundaryModeInputs == {"wrap", "clamp", "zero", "cube", "mirror"}
CubeModeInputs == {"True", "False", "None"}

\* max_mip_level arguments: None, or a number given in halves so that
\* fractions are inputs too: -1, -0.5, 0, 0.5, 1, ..., MaxMipLevel
NoLevel == [given |-> FALSE, halves |-> 0]
Level(h) == [given |-> TRUE, halves |-> h]
MaxMipLevelInputs ==
    {NoLevel} \cup {Level(h) : h \in {-2, -1, 0, 1} \cup {2 * k : k \in 1..MaxMipLevel}}

\* isinstance(x, torch.Tensor)
IsTensor(x) == x \in Tensors

\* int(x) for a number given in halves: truncation toward zero
PyInt(halves) == IF halves >= 0 THEN halves \div 2 ELSE -((-halves) \div 2)

\* max_mip_level = int(max_mip_level); assert max_mip_level >= 0
LevelAccepted(m) == PyInt(m.halves) >= 0

\* the sanitized max_mip_level (texture lines 401-405, texture_construct_mip
\* lines 456-460): [ok, val]
SanitizeLevel(m) ==
    IF ~m.given THEN [ok |-> TRUE, val |-> NoMipLimit]
    ELSE [ok |-> LevelAccepted(m), val |-> PyInt(m.halves)]

\* (variant: 'auto' always picks the mipmapped filter)
ResolveAuto_AlwaysMip(filter_mode, uv_da) ==
    IF filter_mode = "auto" THEN "linear-mipmap-linear" ELSE filter_mode

\* if filter_mode == 'auto': ...
ResolveAuto(filter_mode, uv_da) ==
    IF filter_mode = "auto"
    THEN IF uv_da # "None" THEN "linear-mipmap-linear" ELSE "linear"
    ELSE filter_mode

\* 'mipmap' in filter_mode, over the strings of FilterModeInputs
HasMipmap(filter_mode) ==
    filter_mode \in {"linear-mipmap-nearest", "linear-mipmap-linear", "mipmap"}

\* (variant: only the trilinear filter is replaced)
Degrade_OnlyTrilinear(filter_mode, max_mip_level) ==
    IF max_mip_level = 0 /\ filter_mode = "linear-mipmap-linear"
    THEN "linear" ELSE filter_mode

\* if max_mip_level == 0 and filter_mode in [...]: filter_mode = 'linear'
Degrade(filter_mode, max_mip_level) ==
    IF max_mip_level = 0
       /\ filter_mode \in {"linear-mipmap-nearest", "linear-mipmap-linear"}
    THEN "linear" ELSE filter_mode

filter_mode_dict ==
    [f \in {"nearest", "linear", "linear-mipmap-nearest", "linear-mipmap-linear"} |->
        CASE f = "nearest" -> 0
          [] f = "linear" -> 1
          [] f = "linear-mipmap-nearest" -> 2
          [] f = "linear-mipmap-linear" -> 3]

boundary_mode_dict ==
    [b \in {"cube", "wrap", "clamp", "zero"} |->
        CASE b = "cube" -> 0
          [] b = "wrap" -> 1
          [] b = "clamp" -> 2
          [] b = "zero" -> 3]

PyBool(b) == IF b THEN "True" ELSE "False"

\* mipmap stacks and other values of the mip argument
NoMip == [kind |-> "None", tex |-> "", max_mip_level |-> 0, cube_mode |-> ""]
NotAWrapper == [kind |-> "list", tex |-> "", max_mip_level |-> 0, cube_mode |-> ""]

\* the plugin's texture_construct_mip: the stack is determined by the texture,
\* the level limit and the cube flag
NativeConstructMip(tex, max_mip_level, cube_mode) ==
    [kind |-> "TextureMipWrapper", tex |-> tex, max_mip_level |-> max_mip_level,
     cube_mode |-> cube_mode]

\* isinstance(mip, TextureMipWrapper)
IsMipWrapper(mip) == mip.kind = "TextureMipWrapper"

\* (variant: the internal stack is always built without the cube flag)
CubeFlag_Never(boundary_mode) == "False"

\* boundary_mode == 'cube', the flag texture() builds its own stack with
CubeFlag(boundary_mode) == PyBool(boundary_mode = "cube")

\* one call of a native sampling function; the plugin's answer is determined
\* by these arguments
NoNative ==
    [fn |-> "none", tex |-> "", uv |-> "", uv_da |-> "", mip |-> NoMip,
     filter_mode_enum |-> -1, boundary_mode_enum |-> -1]

\* what the autograd function keeps for backward
NoSaved ==
    [stub |-> "none", filter_mode |-> "", tex |-> "", uv |-> "", uv_da |-> "",
     mip |-> NoMip, filter_mode_enum |-> -1, boundary_mode_enum |-> -1]

TexFail(err, resolved) ==
    [ok |-> FALSE, err |-> err, resolved |-> resolved, filter_mode |-> "",
     built |-> <<>>,
     fwd |-> NoNative, saved |-> NoSaved]

\* _texture_func_mip.apply / _texture_func.apply: the native forward and the
\* state saved for backward
TexApply(a, resolved, filter_mode, mip, built) ==
    LET fe == filter_mode_dict[filter_mode]
        be == boundary_mode_dict[a.boundary_mode]
        viaMip == filter_mode \in {"linear-mipmap-linear", "linear-mipmap-nearest"}
    IN  [ok |-> TRUE, err |-> "none", resolved |-> resolved,
         filter_mode |-> filter_mode, built |-> built,
         fwd |-> IF viaMip
                 THEN [fn |-> "texture_fwd_mip", tex |-> a.tex, uv |-> a.uv,
                       uv_da |-> a.uv_da, mip |-> mip,
                       filter_mode_enum |-> fe, boundary_mode_enum |-> be]
                 ELSE [fn |-> "texture_fwd", tex |-> a.tex, uv |-> a.uv,
                       uv_da |-> "", mip |-> NoMip,
                       filter_mode_enum |-> fe, boundary_mode_enum |-> be],
         saved |-> IF viaMip
                   THEN [stub |-> "_texture_func_mip", filter_mode |-> filter_mode,
                         tex |-> a.tex, uv |-> a.uv, uv_da |-> a.uv_da, mip |-> mip,
                         filter_mode_enum |-> fe,
                         boundary_mode_enum |-> be]
                   ELSE [stub |-> "_texture_func", filter_mode |-> filter_mode,
                         tex |-> a.tex, uv |-> a.uv, uv_da |-> "", mip |-> NoMip,
                         filter_mode_enum |-> fe,
                         boundary_mode_enum |-> be]]

\* texture(tex, uv, uv_da, mip, filter_mode, boundary_mode, max_mip_level):
\*   ok, err      whether the call returned, and what raised otherwise
\*   resolved     filter_mode once 'auto' has been replaced
\*   filter_mode  the filter in effect when the stub was chosen
\*   built        the arguments of each plugin texture_construct_mip call made
\*   fwd          the native forward call made (fn = "none": none)
\*   saved        the state kept for backward
Texture(a) ==
    LET f1 == ResolveAuto(a.filter_mode, a.uv_da)
        lvl == SanitizeLevel(a.max_mip_level)
        f2 == Degrade(f1, lvl.val)
    IN  IF ~lvl.ok THEN TexFail("assert max_mip_level", f1)
        ELSE IF ~(IsTensor(a.tex) /\ IsTensor(a.uv)) THEN TexFail("assert tensor", f1)
        ELSE IF HasMipmap(f1) /\ ~IsTensor(a.uv_da) THEN TexFail("assert uv_da", f1)
        ELSE IF f2 \notin DOMAIN filter_mode_dict THEN TexFail("KeyError filter_mode", f1)
        ELSE IF a.boundary_mode \notin DOMAIN boundary_mode_dict
             THEN TexFail("KeyError boundary_mode", f1)
        ELSE IF HasMipmap(f2) /\ a.mip # NoMip /\ ~IsMipWrapper(a.mip)
             THEN TexFail("assert mip", f1)
        ELSE IF HasMipmap(f2) /\ a.mip = NoMip
             THEN LET args == [tex |-> a.tex, max_mip_level |-> lvl.val,
                               cube_mode |-> CubeFlag(a.boundary_mode)]
                  IN  TexApply(a, f1, f2,
                               NativeConstructMip(args.tex, args.max_mip_level,
                                                  args.cube_mode),
                               <<args>>)
        ELSE TexApply(a, f1, f2, a.mip, <<>>)

\* texture_construct_mip(tex, max_mip_level, cube_mode): [ok, mip]
TextureConstructMip(tex, max_mip_level, cube_mode) ==
    LET lvl == SanitizeLevel(max_mip_level)
    IN  IF ~IsTensor(tex) \/ cube_mode \notin {"True", "False"} \/ ~lvl.ok
        THEN [ok |-> FALSE, mip |-> NoMip]
        ELSE [ok |-> TRUE, mip |-> NativeConstructMip(tex, lvl.val, cube_mode)]

\* no call, no result and no backward on record
NoArgs == [tex |-> ""]
NoRes == [ok |-> FALSE]
NoGrad == [fn |-> "none"]

\* (variant: linear-mipmap-nearest returns a uv_da gradient as well)
TextureBackward_UvDaForBothMip(sv) ==
    LET g(fn, uv, da) ==
            [fn |-> fn, mip |-> sv.mip, filter_mode_enum |-> sv.filter_mode_enum,
             boundary_mode_enum |-> sv.boundary_mode_enum,
             g_tex |-> TRUE, g_uv |-> uv, g_uv_da |-> da,
             g_filter_mode |-> FALSE, g_mip |-> FALSE, g_enums |-> FALSE]
    IN  IF sv.stub = "_texture_func_mip"
        THEN IF sv.filter_mode = "linear-mipmap-linear"
             THEN g("texture_grad_linear_mipmap_linear", TRUE, TRUE)
             ELSE g("texture_grad_linear_mipmap_nearest", TRUE, TRUE)
        ELSE IF sv.filter_mode = "linear"
             THEN g("texture_grad_linear", TRUE, FALSE)
             ELSE g("texture_grad_nearest", FALSE, FALSE)

\* _texture_func_mip.backward / _texture_func.backward: the native gradient
\* function called, what it is handed, and which inputs get a gradient
TextureBackward(sv) ==
    LET g(fn, uv, da) ==
            [fn |-> fn, mip |-> sv.mip, filter_mode_enum |-> sv.filter_mode_enum,
             boundary_mode_enum |-> sv.boundary_mode_enum,
             g_tex |-> TRUE, g_uv |-> uv, g_uv_da |-> da,
             g_filter_mode |-> FALSE, g_mip |-> FALSE, g_enums |-> FALSE]
    IN  IF sv.stub = "_texture_func_mip"
        THEN IF sv.filter_mode = "linear-mipmap-linear"
             THEN g("texture_grad_linear_mipmap_linear", TRUE, TRUE)
             ELSE g("texture_grad_linear_mipmap_nearest", TRUE, FALSE)
        ELSE IF sv.filter_mode = "linear"
             THEN g("texture_grad_linear", TRUE, FALSE)
             ELSE g("texture_grad_nearest", FALSE, FALSE)

----------------------------------------------------------------------------
(* interpolate(): the Python side *)

\* number of vertex attributes (indices 0 .. NumAttrs-1), and the longest
\* diff_attrs list tried
NumAttrs == 2

AttrTensors == {"attrA", "attrB", "rast", "tri", "rast_db"}

AttrInputs == {"attrA", "attrB", "list"}
RastInputs == {"rast", "list"}
RastDbInputs == {"None", "rast_db", "list"}

RECURSIVE IndexLists(_)
IndexLists(n) ==
    IF n = 0 THEN {<<>>}
    ELSE LET shorter == IndexLists(n - 1)
         IN  shorter \cup {Append(l, i) : l \in {x \in shorter : Len(x) = n - 1},
                                          i \in 0..(NumAttrs - 1)}

\* values of the diff_attrs argument: None, 'all', a list of indices, a bare
\* index (0-d), a list of lists (2-d), and a string other than 'all'
DiffAttrsInputs ==
    {[kind |-> k, val |-> <<>>] : k \in {"None", "all", "scalar", "nested", "str"}}
        \cup {[kind |-> "list", val |-> l] : l \in IndexLists(NumAttrs)}

\* lines 297-303: None becomes [], 'all' is kept, anything else goes through
\* np.asarray(diff_attrs, np.int32), must be 1-d, and comes back as a list
SanitizeDiffAttrs(d) ==
    IF d.kind = "None" THEN [ok |-> TRUE, err |-> "none", val |-> [kind |-> "list", val |-> <<>>]]
    ELSE IF d.kind = "all" THEN [ok |-> TRUE, err |-> "none", val |-> d]
    ELSE IF d.kind = "str" THEN [ok |-> FALSE, err |-> "ValueError diff_attrs", val |-> d]
    ELSE IF d.kind # "list" THEN [ok |-> FALSE, err |-> "assert diff_attrs", val |-> d]
    ELSE [ok |-> TRUE, err |-> "none", val |-> d]

\* (variant: only 'all' counts as a selection)
Truthy_AllOnly(d) == d.kind = "all"

\* `if diff_attrs:` on the sanitized value: 'all' or a non-empty list
Truthy(d) == d.kind = "all" \/ (d.kind = "list" /\ d.val # <<>>)

\* diff_attrs_all = int(diff_attrs == 'all')
DiffAttrsAll(d) == IF d.kind = "all" THEN 1 ELSE 0

\* diff_attrs_list = [] if diff_attrs_all else diff_attrs
DiffAttrsList(d) == IF DiffAttrsAll(d) = 1 THEN <<>> ELSE d.val

\* the plugin's interpolate_fwd: no derivative channels in out_da
NativeInterpolateFwd(attr, rast, tri) ==
    [out |-> [attr |-> attr, rast |-> rast, tri |-> tri], out_da_channels |-> 0]

\* the plugin's interpolate_fwd_da: two derivative channels per selected
\* attribute
NativeInterpolateFwdDa(attr, rast, tri, rast_db, diff_attrs_all, diff_attrs_list) ==
    [out |-> [attr |-> attr, rast |-> rast, tri |-> tri],
     out_da_channels |-> IF diff_attrs_all = 1 THEN 2 * NumAttrs
                         ELSE 2 * Len(diff_attrs_list)]

NoItpNative ==
    [fn |-> "none", attr |-> "", rast |-> "", tri |-> "", rast_db |-> "",
     diff_attrs_all |-> 0, diff_attrs_list |-> <<>>]

NoItpSaved ==
    [stub |-> "none", attr |-> "", rast |-> "", tri |-> "", rast_db |-> "",
     diff_attrs_all |-> 0, diff_attrs_list |-> <<>>]

ItpFail(err) ==
    [ok |-> FALSE, err |-> err, fwd |-> NoItpNative, out_da_channels |-> 0,
     saved |-> NoItpSaved]

\* _interpolate_func_da.forward
InterpolateFuncDa(attr, rast, tri, rast_db, diff_attrs_all, diff_attrs_list) ==
    LET r == NativeInterpolateFwdDa(attr, rast, tri, rast_db, diff_attrs_all,
                                    diff_attrs_list)
    IN  [ok |-> TRUE, err |-> "none",
         fwd |-> [fn |-> "interpolate_fwd_da", attr |-> attr, rast |-> rast,
                  tri |-> tri, rast_db |-> rast_db,
                  diff_attrs_all |-> diff_attrs_all,
                  diff_attrs_list |-> diff_attrs_list],
         out_da_channels |-> r.out_da_channels,
         saved |-> [stub |-> "_interpolate_func_da", attr |-> attr, rast |-> rast,
                    tri |-> tri, rast_db |-> rast_db,
                    diff_attrs_all |-> diff_attrs_all,
                    diff_attrs_list |-> diff_attrs_list]]

\* _interpolate_func.forward
InterpolateFunc(attr, rast, tri) ==
    LET r == NativeInterpolateFwd(attr, rast, tri)
    IN  [ok |-> TRUE, err |-> "none",
         fwd |-> [fn |-> "interpolate_fwd", attr |-> attr, rast |-> rast,
                  tri |-> tri, rast_db |-> "", diff_attrs_all |-> 0,
                  diff_attrs_list |-> <<>>],
         out_da_channels |-> r.out_da_channels,
         saved |-> [stub |-> "_interpolate_func", attr |-> attr, rast |-> rast,
                    tri |-> tri, rast_db |-> "", diff_attrs_all |-> 0,
                    diff_attrs_list |-> <<>>]]

\* interpolate(attr, rast, tri, rast_db, diff_attrs)
Interpolate(a) ==
    LET s == SanitizeDiffAttrs(a.diff_attrs)
        diff_attrs == s.val
    IN  IF ~s.ok THEN ItpFail(s.err)
        ELSE IF ~(a.attr \in AttrTensors /\ a.rast \in AttrTensors
                  /\ a.tri \in AttrTensors)
             THEN ItpFail("assert tensor")
        ELSE IF Truthy(diff_attrs) /\ a.rast_db \notin AttrTensors
             THEN ItpFail("assert rast_db")
        ELSE IF Truthy(diff_attrs)
             THEN InterpolateFuncDa(a.attr, a.rast, a.tri, a.rast_db,
                                    DiffAttrsAll(diff_attrs), DiffAttrsList(diff_attrs))
        ELSE InterpolateFunc(a.attr, a.rast, a.tri)

\* _interpolate_func_da.backward / _interpolate_func.backward: the native
\* gradient function called, what it is handed, and which inputs get a gradient
InterpolateBackward(sv) ==
    IF sv.stub = "_interpolate_func_da"
    THEN [fn |-> "interpolate_grad_da", rast_db |-> sv.rast_db,
          diff_attrs_all |-> sv.diff_attrs_all,
          diff_attrs_list |-> sv.diff_attrs_list,
          g_attr |-> TRUE, g_rast |-> TRUE, g_tri |-> FALSE, g_rast_db |-> TRUE,
          g_diff_attrs |-> FALSE]
    ELSE [fn |-> "interpolate_grad", rast_db |-> "", diff_attrs_all |-> 0,
          diff_attrs_list |-> <<>>,
          g_attr |-> TRUE, g_rast |-> TRUE, g_tri |-> FALSE, g_rast_db |-> FALSE,
          g_diff_attrs |-> FALSE]

\* no call, no result and no backward on record
NoItpArgs == [attr |-> ""]
NoItpRes == [ok |-> FALSE]
NoItpGrad == [fn |-> "none"]

----------------------------------------------------------------------------
(* antialias(): the Python side *)

\* number of antialias() calls that reach forward
MaxCalls == 2

AATensors == {"colorA", "colorB", "rast", "posA", "posB", "tri"}

ColorInputs == {"colorA", "colorB", "list"}
PosInputs == {"posA", "posB"}
BoostInputs == {1, 2}

NoHash == [kind |-> "None", tri |-> ""]
NotAHash == [kind |-> "list", tri |-> ""]

\* the plugin's antialias_construct_topology_hash
NativeConstructTopologyHash(tri) == [kind |-> "TopologyHashWrapper", tri |-> tri]

\* the plugin's antialias_fwd: the output, and a work buffer of its own for
\* every call (serial counts the calls made so far)
NativeAntialiasFwd(serial, color, rast, pos, tri, topology_hash) ==
    [out |-> [color |-> color, rast |-> rast, pos |-> pos, tri |-> tri,
              topology_hash |-> topology_hash],
     work_buffer |-> serial + 1]

\* (variant: the saved state is kept on the function class, one for all calls)
SaveForBackward_OnClass(store, saved) == [i \in 1..(Len(store) + 1) |-> saved]

\* ctx.save_for_backward(...) and ctx.saved_misc = ... on the call's own ctx
SaveForBackward(store, saved) == Append(store, saved)

\* antialias(color, rast, pos, tri, topology_hash, pos_gradient_boost):
\* [ok, built, fwd, saved]; built counts the topology hashes constructed
Antialias(serial, color, rast, pos, tri, topology_hash, pos_gradient_boost) ==
    IF ~(\A x \in {color, rast, pos, tri} : x \in AATensors)
       \/ (topology_hash # NoHash /\ topology_hash.kind # "TopologyHashWrapper")
    THEN [ok |-> FALSE]
    ELSE LET th == IF topology_hash # NoHash THEN topology_hash
                   ELSE NativeConstructTopologyHash(tri)
             r == NativeAntialiasFwd(serial, color, rast, pos, tri, th)
         IN  [ok |-> TRUE,
              built |-> IF topology_hash # NoHash THEN 0 ELSE 1,
              fwd |-> [color |-> color, rast |-> rast, pos |-> pos, tri |-> tri,
                       topology_hash |-> th,
                       pos_gradient_boost |-> pos_gradient_boost,
                       work_buffer |-> r.work_buffer, out |-> r.out],
              saved |-> [color |-> color, rast |-> rast, pos |-> pos, tri |-> tri,
                         pos_gradient_boost |-> pos_gradient_boost,
                         work_buffer |-> r.work_buffer]]

NoBwd ==
    [ran |-> FALSE, color |-> "", rast |-> "", pos |-> "", tri |-> "",
     work_buffer |-> 0, pos_gradient_boost |-> 0, g_color_scale |-> 0,
     g_pos_scale |-> 0, g_others |-> FALSE, seen |-> 0]

\* (variant: the boost scales the color gradient as well)
AntialiasBackward_BoostBoth(sv, seen) ==
    [ran |-> TRUE, color |-> sv.color, rast |-> sv.rast, pos |-> sv.pos,
     tri |-> sv.tri, work_buffer |-> sv.work_buffer,
     pos_gradient_boost |-> sv.pos_gradient_boost,
     g_color_scale |-> IF sv.pos_gradient_boost # 1 THEN sv.pos_gradient_boost ELSE 1,
     g_pos_scale |-> IF sv.pos_gradient_boost # 1 THEN sv.pos_gradient_boost ELSE 1,
     g_others |-> FALSE, seen |-> seen]

\* _antialias_func.backward on the saved state sv: what antialias_grad is
\* handed, and the factors applied to the native gradients it returns
\* (seen: how many forwards had run by then)
AntialiasBackward(sv, seen) ==
    [ran |-> TRUE, color |-> sv.color, rast |-> sv.rast, pos |-> sv.pos,
     tri |-> sv.tri, work_buffer |-> sv.work_buffer,
     pos_gradient_boost |-> sv.pos_gradient_boost,
     g_color_scale |-> 1,
     g_pos_scale |-> IF sv.pos_gradient_boost # 1 THEN sv.pos_gradient_boost ELSE 1,
     g_others |-> FALSE, seen |-> seen]

----------------------------------------------------------------------------
(* History records *)

\* last: what the most recently completed operation was and did.
\*   mode    mode of the context it was called on ("none": no context)
\*   native  whether the call reached the native plugin
\*   bound0  the context was bound on the calling thread at entry
\*   other0  the calling thread held a different context at entry
\*   held0   the caller had acquired the context and not released it at entry
\*   bound1  the context is bound on the calling thread at exit
\*   output_db, grad_db  the context's output_db and the caller's grad_db
\*   path    the native gradient function a backward ran
\*   same    the bindings (and the contexts' configuration) at exit equal those at entry
NoOp ==
    [op |-> "none", mode |-> "none", ok |-> TRUE, err |-> "none",
     native |-> FALSE, bound0 |-> FALSE, other0 |-> FALSE, held0 |-> FALSE,
     bound1 |-> FALSE, same |-> TRUE, out |-> "none", grad_db |-> "None",
     output_db |-> "None", path |-> "none"]

NoTape == [output_db |-> "None", saved_grad_db |-> "None", grad_db |-> "None"]

NoFrame == [ctx |-> 0, before |-> {}, held0 |-> FALSE]

ModeOf(g, c) == IF c \in 1..Len(g) THEN g[c].mode ELSE "none"

\* the record of an operation that ran in one step (read after the step's
\* own updates of bindings and glctx); the binding flags are those the native
\* wrapper saw, and are FALSE for a call that an assert stopped before it
Done(op, t, c, ok, err, native) ==
    [op |-> op, mode |-> ModeOf(glctx', c), ok |-> ok, err |-> err,
     native |-> native,
     bound0 |-> native /\ <<c, t>> \in bindings,
     other0 |-> native /\ BoundOn(bindings, t) \ {c} # {},
     held0 |-> native /\ c \in held[t],
     bound1 |-> native /\ <<c, t>> \in bindings',
     same |-> (bindings' = bindings /\ glctx' = glctx),
     out |-> "none", grad_db |-> "None", output_db |-> "None", path |-> "none"]

----------------------------------------------------------------------------
(* Actions of Spec *)

Init ==
    /\ glctx = <<>>
    /\ bindings = {}
    /\ held = [t \in Threads |-> {}]
    /\ pc = [t \in Threads |-> "idle"]
    /\ frame = [t \in Threads |-> NoFrame]
    /\ last = NoOp
    /\ tape = NoTape
    /\ texPc = "idle"
    /\ texMip = NoMip
    /\ texArgs = NoArgs
    /\ texRes = NoRes
    /\ texGrad = NoGrad
    /\ aaHash = NoHash
    /\ aaRaised = FALSE
    /\ aaFwd = <<>>
    /\ aaCtx = <<>>
    /\ aaBwd = <<>>
    /\ itpPc = "idle"
    /\ itpArgs = NoItpArgs
    /\ itpRes = NoItpRes
    /\ itpGrad = NoItpGrad

\* RasterizeGLContext.__init__ (on any thread: construction leaves no binding)
Construct(output_db, mode) ==
    /\ Len(glctx) < MaxCtx
    /\ UNCHANGED <<bindings, held, pc, frame, tape, texVars, aaVars, itpVars>>
    /\ IF ValidOutputDb(output_db) /\ ValidMode(mode)
       THEN /\ glctx' = Append(glctx, [output_db |-> output_db, mode |-> mode,
                                    automatic |-> WrapperAutomatic(mode)])
            /\ last' = Done("construct", 1, Len(glctx) + 1, TRUE, "none", TRUE)
       ELSE /\ glctx' = glctx
            /\ last' = Done("construct", 1, 0, FALSE, "assert", FALSE)

\* RasterizeGLContext.set_context
SetContext(t, c) ==
    /\ pc[t] = "idle"
    /\ c \in 1..Len(glctx)
    /\ UNCHANGED <<glctx, pc, frame, tape, texVars, aaVars, itpVars>>
    /\ IF ~AssertManual(glctx[c].mode)
       THEN /\ UNCHANGED <<bindings, held>>
            /\ last' = Done("set_context", t, c, FALSE, "assert", FALSE)
       ELSE IF NativeCanBind(bindings, t, c)
       THEN /\ bindings' = NativeBind(bindings, t, c)
            /\ held' = [held EXCEPT ![t] = @ \cup {c}]
            /\ last' = Done("set_context", t, c, TRUE, "none", TRUE)
       ELSE /\ UNCHANGED <<bindings, held>>
            /\ last' = Done("set_context", t, c, FALSE, "native", TRUE)

\* RasterizeGLContext.release_context
ReleaseContext(t, c) ==
    /\ pc[t] = "idle"
    /\ c \in 1..Len(glctx)
    /\ UNCHANGED <<glctx, pc, frame, tape, texVars, aaVars, itpVars>>
    /\ IF ~AssertManual(glctx[c].mode)
       THEN /\ UNCHANGED <<bindings, held>>
            /\ last' = Done("release_context", t, c, FALSE, "assert", FALSE)
       ELSE IF NativeCanRelease(bindings, t, c)
       THEN /\ bindings' = NativeUnbind(bindings, t, c)
            /\ held' = [held EXCEPT ![t] = @ \ {c}]
            /\ last' = Done("release_context", t, c, TRUE, "none", TRUE)
       ELSE /\ UNCHANGED <<bindings, held>>
            /\ last' = Done("release_context", t, c, FALSE, "native", TRUE)

\* rasterize() up to and including the entry of rasterize_fwd.
\* c = 0 stands for a glctx argument that is no RasterizeGLContext;
\* argsOK says whether the other asserts pass: grad_db is True or False, and
\* pos, tri (and ranges, when given) are tensors.  Which of True and False
\* grad_db is plays no part until forward stores it after rasterize_fwd has
\* returned (grad_db never reaches the native call), so RasterizeReturn draws it.
RasterizeCall(t, c, argsOK) ==
    /\ pc[t] = "idle"
    /\ c \in 0..Len(glctx)
    /\ UNCHANGED <<glctx, held, tape, texVars, aaVars, itpVars>>
    /\ IF c = 0 \/ ~argsOK
       THEN /\ UNCHANGED <<bindings, pc, frame>>
            /\ last' = Done("rasterize", t, c, FALSE, "assert", FALSE)
       ELSE IF NativeCanEnter(bindings, t, c, glctx[c].automatic)
       THEN /\ bindings' = NativeEnter(bindings, t, c, glctx[c].automatic)
            /\ pc' = [pc EXCEPT ![t] = "raster"]
            /\ frame' = [frame EXCEPT ![t] =
                   [ctx |-> c, before |-> BoundOn(bindings, t),
                    held0 |-> c \in held[t]]]
            /\ last' = [NoOp EXCEPT !.op = "rasterize_fwd"]
       ELSE /\ UNCHANGED <<bindings, pc, frame>>
            /\ last' = Done("rasterize", t, c, FALSE, "bind", TRUE)

\* rasterize_fwd finishes (ok) or raises (~ok); _rasterize_func.forward saves
\* its state only when the native call returned
RasterizeReturn(t, ok, grad_db) ==
    /\ pc[t] = "raster"
    /\ ValidGradDb(grad_db)
    /\ LET f == frame[t]
           b1 == NativeExit(bindings, t, f.ctx, glctx[f.ctx].automatic, ok)
       IN  /\ bindings' = b1
           /\ last' = [op |-> "rasterize", mode |-> glctx[f.ctx].mode, ok |-> ok,
                       err |-> IF ok THEN "none" ELSE "native", native |-> TRUE,
                       bound0 |-> f.ctx \in f.before,
                       other0 |-> f.before \ {f.ctx} # {},
                       held0 |-> f.held0,
                       bound1 |-> <<f.ctx, t>> \in b1,
                       same |-> (BoundOn(b1, t) = f.before),
                       out |-> IF ok THEN "raster" ELSE "none",
                       grad_db |-> "None", output_db |-> "None",
                       path |-> "none"]
           /\ tape' = IF ok
                      THEN [output_db |-> glctx[f.ctx].output_db,
                            saved_grad_db |->
                                EffectiveGradDb(grad_db, glctx[f.ctx].output_db),
                            grad_db |-> grad_db]
                      ELSE tape
    /\ pc' = [pc EXCEPT ![t] = "idle"]
    /\ frame' = [frame EXCEPT ![t] = NoFrame]
    /\ UNCHANGED <<glctx, held, texVars, aaVars, itpVars>>

\* _rasterize_func.backward on the saved state of the latest forward
RasterizeBackward ==
    /\ tape # NoTape
    /\ last' = [NoOp EXCEPT !.op = "backward", !.native = TRUE, !.out = "g_pos",
                            !.grad_db = tape.grad_db,
                            !.output_db = tape.output_db,
                            !.path = BackwardPath(tape.saved_grad_db)]
    /\ tape' = NoTape
    /\ UNCHANGED <<glctx, bindings, held, pc, frame, texVars, aaVars, itpVars>>

Next ==
    \/ \E o \in OutputDbInputs, m \in ModeInputs : Construct(o, m)
    \/ \E t \in Threads, c \in 1..MaxCtx : SetContext(t, c)
    \/ \E t \in Threads, c \in 1..MaxCtx : ReleaseContext(t, c)
    \/ \E t \in Threads, c \in 0..MaxCtx, argsOK \in BOOLEAN :
          RasterizeCall(t, c, argsOK)
    \/ \E t \in Threads, ok \in BOOLEAN, g \in GradDbInputs : RasterizeReturn(t, ok, g)
    \/ RasterizeBackward

Spec == Init /\ [][Next]_vars

----------------------------------------------------------------------------
(* Actions of SpecTex *)

\* the caller builds a mipmap stack ahead of time and keeps it
ConstructMip(tex, max_mip_level, cube_mode) ==
    /\ texPc = "idle"
    /\ LET r == TextureConstructMip(tex, max_mip_level, cube_mode)
       IN  texMip' = IF r.ok THEN r.mip ELSE texMip
    /\ UNCHANGED <<texPc, texArgs, texRes, texGrad, ctxVars, aaVars, itpVars>>

\* one call of texture()
TextureCall(a) ==
    /\ texPc = "idle"
    /\ texPc' = "called"
    /\ texArgs' = a
    /\ texRes' = Texture(a)
    /\ texGrad' = NoGrad
    /\ UNCHANGED <<texMip, ctxVars, aaVars, itpVars>>

\* autograd runs the backward of the call that returned
TextureGrad ==
    /\ texPc = "called"
    /\ texRes.ok
    /\ texPc' = "backward"
    /\ texGrad' = TextureBackward(texRes.saved)
    /\ UNCHANGED <<texMip, texArgs, texRes, ctxVars, aaVars, itpVars>>

\* the caller drops the output (and with it the saved state) of the call
TextureDrop ==
    /\ texPc \in {"called", "backward"}
    /\ texPc' = "idle"
    /\ texArgs' = NoArgs
    /\ texRes' = NoRes
    /\ texGrad' = NoGrad
    /\ UNCHANGED <<texMip, ctxVars, aaVars, itpVars>>

TextureArgs ==
    [tex : TexInputs, uv : {"uv"}, uv_da : UvDaInputs,
     mip : {NoMip, NotAWrapper, texMip},
     filter_mode : FilterModeInputs, boundary_mode : BoundaryModeInputs,
     max_mip_level : MaxMipLevelInputs]

NextTex ==
    \/ /\ texPc = "idle"
       /\ \E tex \in TexInputs, m \in MaxMipLevelInputs, cm \in CubeModeInputs :
             ConstructMip(tex, m, cm)
    \/ /\ texPc = "idle"
       /\ \E a \in TextureArgs : TextureCall(a)
    \/ TextureGrad
    \/ TextureDrop

SpecTex == Init /\ [][NextTex]_vars

----------------------------------------------------------------------------
(* Actions of SpecAA *)

\* antialias_construct_topology_hash(tri), kept by the caller
ConstructTopologyHash ==
    /\ aaHash = NoHash
    /\ aaHash' = NativeConstructTopologyHash("tri")
    /\ UNCHANGED <<aaRaised, aaFwd, aaCtx, aaBwd, ctxVars, texVars, itpVars>>

\* one call of antialias(): the wrapper and _antialias_func.forward
AntialiasCall(color, pos, topology_hash, pos_gradient_boost) ==
    /\ Len(aaFwd) < MaxCalls
    /\ LET r == Antialias(Len(aaFwd), color, "rast", pos, "tri", topology_hash,
                          pos_gradient_boost)
       IN  IF r.ok
           THEN /\ aaFwd' = Append(aaFwd, r.fwd)
                /\ aaCtx' = SaveForBackward(aaCtx, r.saved)
                /\ aaBwd' = Append(aaBwd, NoBwd)
                /\ aaRaised' = FALSE
           ELSE /\ aaRaised' = TRUE
                /\ UNCHANGED <<aaFwd, aaCtx, aaBwd>>
    /\ UNCHANGED <<aaHash, ctxVars, texVars, itpVars>>

\* autograd runs the backward of forward call i (any outstanding one)
AntialiasGrad(i) ==
    /\ i \in 1..Len(aaCtx)
    /\ ~aaBwd[i].ran
    /\ aaBwd' = [aaBwd EXCEPT ![i] = AntialiasBackward(aaCtx[i], Len(aaFwd))]
    /\ UNCHANGED <<aaHash, aaRaised, aaFwd, aaCtx, ctxVars, texVars, itpVars>>

NextAA ==
    \/ ConstructTopologyHash
    \/ \E color \in ColorInputs, pos \in PosInputs,
          th \in {NoHash, NotAHash, aaHash}, boost \in BoostInputs :
          AntialiasCall(color, pos, th, boost)
    \/ \E i \in 1..MaxCalls : AntialiasGrad(i)

SpecAA == Init /\ [][NextAA]_vars

----------------------------------------------------------------------------
(* Actions of SpecItp *)

\* one call of interpolate()
InterpolateCall(a) ==
    /\ itpPc = "idle"
    /\ itpPc' = "called"
    /\ itpArgs' = a
    /\ itpRes' = Interpolate(a)
    /\ itpGrad' = NoItpGrad
    /\ UNCHANGED <<ctxVars, texVars, aaVars>>

\* autograd runs the backward of the call that returned
InterpolateGrad ==
    /\ itpPc = "called"
    /\ itpRes.ok
    /\ itpPc' = "backward"
    /\ itpGrad' = InterpolateBackward(itpRes.saved)
    /\ UNCHANGED <<itpArgs, itpRes, ctxVars, texVars, aaVars>>

\* the caller drops the outputs (and with them the saved state) of the call
InterpolateDrop ==
    /\ itpPc \in {"called", "backward"}
    /\ itpPc' = "idle"
    /\ itpArgs' = NoItpArgs
    /\ itpRes' = NoItpRes
    /\ itpGrad' = NoItpGrad
    /\ UNCHANGED <<ctxVars, texVars, aaVars>>

InterpolateArgs ==
    [attr : AttrInputs, rast : RastInputs, tri : {"tri"}, rast_db : RastDbInputs,
     diff_attrs : DiffAttrsInputs]

NextItp ==
    \/ \E a \in InterpolateArgs : InterpolateCall(a)
    \/ InterpolateGrad
    \/ InterpolateDrop

SpecItp == Init /\ [][NextItp]_vars

----------------------------------------------------------------------------
(* Properties of the context life cycle and of rasterize() *)

\* C1: in every reachable state each context is bound on at most one thread
\* and each thread holds at most one bound context; a set_context or a
\* rasterize call on a thread that already holds a different bound context
\* fails and adds no binding.
C1_OneBinding ==
    /\ \A c \in 1..MaxCtx : Cardinality({t \in Threads : <<c, t>> \in bindings}) <= 1
    /\ \A t \in Threads : Cardinality(BoundOn(bindings, t)) <= 1
    /\ (last.op \in {"set_context", "rasterize"} /\ last.other0)
          => (~last.ok /\ ~last.bound1 /\ last.same)

\* a set_context reached the native wrapper on a thread holding another
\* context, and was refused
C1_Witness ==
    /\ last.op = "set_context" /\ last.other0 /\ last.native /\ ~last.ok
    /\ bindings # {}

\* C2: a rasterize call on an automatic context, successful or not, leaves
\* the context unbound and the calling thread's bindings as they were at
\* entry; an automatic context is bound only while a call on it is running.
C2_AutomaticScoped ==
    /\ (last.op = "rasterize" /\ last.mode = "automatic")
          => (~last.bound1 /\ last.same /\ ~last.bound0)
    /\ \A c \in 1..Len(glctx), t \in Threads :
          (<<c, t>> \in bindings /\ glctx[c].mode = "automatic")
             => (pc[t] = "raster" /\ frame[t].ctx = c)

\* an automatic rasterize call bound the context and then failed inside the
\* native call
C2_Witness ==
    /\ last.op = "rasterize" /\ last.mode = "automatic"
    /\ last.native /\ ~last.ok /\ last.err = "native"

\* C3: a rasterize call on a manual context that the calling thread has not
\* acquired (no set_context without a later release_context) fails and has no
\* output; a successful manual rasterize call runs with the context acquired
\* and bound on the calling thread throughout.
C3_ManualNeedsBinding ==
    /\ (last.op = "rasterize" /\ last.mode = "manual" /\ ~last.held0)
          => (~last.ok /\ last.out = "none")
    /\ (last.op = "rasterize" /\ last.mode = "manual" /\ last.ok)
          => (last.held0 /\ last.bound0 /\ last.bound1)

\* a manual rasterize call reached the native call unbound and was refused
C3_Witness ==
    /\ last.op = "rasterize" /\ last.mode = "manual" /\ ~last.held0
    /\ last.native /\ ~last.ok /\ last.err = "bind"

\* C4: set_context and release_context on an automatic context fail without
\* reaching the native wrapper and change neither bindings nor configuration;
\* on a manual context they are forwarded to the native wrapper.
C4_ManualOnlyOps ==
    /\ (last.op \in {"set_context", "release_context"} /\ last.mode = "automatic")
          => (~last.ok /\ ~last.native /\ last.same)
    /\ (last.op \in {"set_context", "release_context"} /\ last.mode = "manual")
          => last.native

\* set_context was called on an automatic context
C4_Witness ==
    last.op = "set_context" /\ last.mode = "automatic" /\ last.err = "assert"

\* C5: backward runs rasterize_grad_db exactly when the caller passed
\* grad_db=True and the context has output_db=True, and rasterize_grad
\* otherwise; grad_db=True on a context with output_db=False is not refused:
\* every call that rasterize_fwd completed has saved its state, and the
\* saved grad_db is True exactly for grad_db=True with output_db=True.
C5_GradDbPath ==
    /\ last.op = "backward" =>
          /\ last.path \in {"rasterize_grad_db", "rasterize_grad"}
          /\ (last.path = "rasterize_grad_db")
                <=> (last.grad_db = "True" /\ last.output_db = "True")
    /\ (last.op = "rasterize" /\ last.ok) => tape # NoTape
    /\ tape # NoTape =>
          /\ tape.saved_grad_db \in {"True", "False"}
          /\ (tape.saved_grad_db = "True")
                <=> (tape.grad_db = "True" /\ tape.output_db = "True")

\* a call with grad_db=True on a context without output_db succeeded and its
\* backward took the plain path
C5_Witness ==
    /\ last.op = "backward" /\ last.grad_db = "True" /\ last.output_db = "False"
    /\ last.path = "rasterize_grad"

----------------------------------------------------------------------------
(* Properties of texture() *)

MipFilters == {"linear-mipmap-nearest", "linear-mipmap-linear"}

\* the parts of a call's result that a caller or the plugin can tell apart
Observable(r) == [ok |-> r.ok, built |-> r.built, fwd |-> r.fwd, saved |-> r.saved]

\* the call is one with max_mip_level = 0 and a mipmap filter, named or
\* reached through 'auto'
C6_Case ==
    /\ texPc # "idle"
    /\ texArgs.max_mip_level = Level(0)
    /\ ResolveAuto(texArgs.filter_mode, texArgs.uv_da) \in MipFilters

\* such a call did what the same call with filter_mode 'linear' does, on the
\* non-mip path with filter enum 1, building and using no mipmap stack
C6_AsLinear ==
    /\ Observable(texRes) = Observable(Texture([texArgs EXCEPT !.filter_mode = "linear"]))
    /\ texRes.ok =>
          /\ texRes.fwd.fn = "texture_fwd"
          /\ texRes.fwd.filter_mode_enum = 1
          /\ texRes.fwd.mip = NoMip
          /\ texRes.saved.mip = NoMip
          /\ texRes.built = <<>>
    /\ texPc = "backward" =>
          /\ texGrad = TextureBackward(Texture([texArgs EXCEPT !.filter_mode = "linear"]).saved)
          /\ texGrad.fn = "texture_grad_linear"

\* C6 as stated: every texture() call with max_mip_level = 0 and a mipmap
\* filter mode behaves exactly like the same call with filter_mode 'linear'.
C6_Original == C6_Case => C6_AsLinear

\* C6 as amended: every texture() call with max_mip_level = 0, a mipmap filter
\* mode and a uv_da tensor behaves exactly like the same call with
\* filter_mode 'linear' (without a uv_da tensor the call is refused, while
\* the 'linear' call is not).
C6_WithUvDa ==
    /\ (C6_Case /\ IsTensor(texArgs.uv_da)) => C6_AsLinear
    /\ (C6_Case /\ ~IsTensor(texArgs.uv_da)) => ~texRes.ok

\* a call with max_mip_level = 0, linear-mipmap-nearest, uv_da and a supplied
\* stack returned and its backward ran
C6_Witness ==
    /\ C6_Case /\ texPc = "backward"
    /\ texArgs.filter_mode = "linear-mipmap-nearest"
    /\ IsTensor(texArgs.uv_da) /\ IsMipWrapper(texArgs.mip)

\* the configuration errors of texture()
ConfigError(a) ==
    \/ a.filter_mode \notin {"auto"} \cup DOMAIN filter_mode_dict
    \/ a.boundary_mode \notin DOMAIN boundary_mode_dict
    \/ (a.max_mip_level.given /\ a.max_mip_level.halves < 0)
    \/ (ResolveAuto(a.filter_mode, a.uv_da) \in MipFilters /\ ~IsTensor(a.uv_da))

Refused(r) ==
    /\ ~r.ok
    /\ r.built = <<>>
    /\ r.fwd.fn = "none"
    /\ r.saved.stub = "none"

\* C7: a texture() call with a configuration error (unknown filter_mode or
\* boundary_mode, negative max_mip_level, mipmap filter without a uv_da
\* tensor) raises before any native call: no stack built, no forward made,
\* nothing saved or returned.
C7_Original == (texPc # "idle" /\ ConfigError(texArgs)) => Refused(texRes)

\* the same with the negative levels limited to those int() leaves negative
C7_TruncatedLevel ==
    (texPc # "idle" /\ ConfigError(texArgs)
       /\ (texArgs.max_mip_level.given => texArgs.max_mip_level.halves \notin {-1}))
    => Refused(texRes)

\* the call is one whose filter in effect is a mipmap filter
C8_Case == texPc # "idle" /\ texRes.ok /\ texRes.filter_mode \in MipFilters

C9_Enums ==
    /\ (texPc # "idle" /\ texArgs.filter_mode = "auto") =>
          texRes.resolved = IF texArgs.uv_da = "None" THEN "linear"
                            ELSE "linear-mipmap-linear"
    /\ (texPc # "idle" /\ texArgs.filter_mode # "auto") =>
          texRes.resolved = texArgs.filter_mode
    /\ (texPc # "idle" /\ texRes.ok) =>
          /\ texRes.filter_mode \in {"nearest", "linear"} \cup MipFilters
          /\ texRes.filter_mode = "nearest" <=> texRes.fwd.filter_mode_enum = 0
          /\ texRes.filter_mode = "linear" <=> texRes.fwd.filter_mode_enum = 1
          /\ texRes.filter_mode = "linear-mipmap-nearest" <=> texRes.fwd.filter_mode_enum = 2
          /\ texRes.filter_mode = "linear-mipmap-linear" <=> texRes.fwd.filter_mode_enum = 3
          /\ texArgs.boundary_mode = "cube" <=> texRes.fwd.boundary_mode_enum = 0
          /\ texArgs.boundary_mode = "wrap" <=> texRes.fwd.boundary_mode_enum = 1
          /\ texArgs.boundary_mode = "clamp" <=> texRes.fwd.boundary_mode_enum = 2
          /\ texArgs.boundary_mode = "zero" <=> texRes.fwd.boundary_mode_enum = 3
          /\ texRes.filter_mode \in {texRes.resolved, "linear"}
    /\ texPc = "backward" =>
          /\ texGrad.filter_mode_enum = texRes.fwd.filter_mode_enum
          /\ texGrad.boundary_mode_enum = texRes.fwd.boundary_mode_enum

\* an 'auto' call with uv_da returned with the trilinear filter and its
\* backward ran
C9_Witness ==
    /\ texPc = "backward" /\ texArgs.filter_mode = "auto"
    /\ texArgs.uv_da = "uv_da" /\ texRes.fwd.filter_mode_enum = 3
    /\ texGrad.filter_mode_enum = 3

\* C11 as stated: backward always returns a texture gradient, a uv gradient
\* for every filter in effect but 'nearest', and a uv_da gradient for both
\* mipmap filters; filter string, enums and mipmap stack get none.
C11_Original ==
    texPc = "backward" =>
       /\ texGrad.g_tex
       /\ texGrad.g_uv <=> (texRes.filter_mode # "nearest")
       /\ texGrad.g_uv_da <=> (texRes.filter_mode \in MipFilters)
       /\ ~texGrad.g_filter_mode /\ ~texGrad.g_mip /\ ~texGrad.g_enums

\* C11: backward always returns a texture gradient, a uv gradient for every
\* filter in effect but 'nearest', and a uv_da gradient for
\* linear-mipmap-linear alone (linear-mipmap-nearest, which is handed uv_da,
\* returns none for it); filter string, enums and mipmap stack get none.
C11_UvDaTrilinearOnly ==
    texPc = "backward" =>
       /\ texGrad.g_tex
       /\ texGrad.g_uv <=> (texRes.filter_mode # "nearest")
       /\ texGrad.g_uv_da <=> (texRes.filter_mode = "linear-mipmap-linear")
       /\ ~texGrad.g_filter_mode /\ ~texGrad.g_mip /\ ~texGrad.g_enums

\* the backward of a linear-mipmap-nearest call, whose forward was handed
\* uv_da, returned gradients for tex and uv and none for uv_da
C11_Witness ==
    /\ texPc = "backward" /\ texRes.filter_mode = "linear-mipmap-nearest"
    /\ texRes.fwd.fn = "texture_fwd_mip" /\ texRes.fwd.uv_da = "uv_da"
    /\ texGrad.fn = "texture_grad_linear_mipmap_nearest"
    /\ texGrad.g_tex /\ texGrad.g_uv /\ ~texGrad.g_uv_da

----------------------------------------------------------------------------
(* Properties of antialias() *)

SavedFields(r) ==
    [color |-> r.color, rast |-> r.rast, pos |-> r.pos, tri |-> r.tri,
     pos_gradient_boost |-> r.pos_gradient_boost, work_buffer |-> r.work_buffer]

\* C10: whatever the order of forward and backward calls, the backward of a
\* forward call is handed the work buffer, color, raster output, positions,
\* triangles and pos_gradient_boost of that very call, and no work buffer
\* reaches the backward of another call.
C10_OwnSavedState ==
    /\ Len(aaBwd) = Len(aaFwd) /\ Len(aaCtx) = Len(aaFwd)
    /\ \A i \in 1..Len(aaFwd) :
          aaBwd[i].ran => SavedFields(aaBwd[i]) = SavedFields(aaFwd[i])
    /\ \A i, j \in 1..Len(aaFwd) :
          (aaBwd[i].ran /\ i # j) => aaBwd[i].work_buffer # aaFwd[j].work_buffer

\* two forwards with different inputs were outstanding, and the backward of
\* the later one ran before that of the earlier one
C10_Witness ==
    /\ Len(aaFwd) >= 2
    /\ aaFwd[1].color # aaFwd[2].color /\ aaFwd[1].pos # aaFwd[2].pos
    /\ aaFwd[1].pos_gradient_boost # aaFwd[2].pos_gradient_boost
    /\ aaBwd[2].ran /\ aaBwd[1].ran /\ aaBwd[1].seen >= 2

\* C13: the position gradient a backward returns is the native one times the
\* pos_gradient_boost of its own forward call (times 1, i.e. unchanged, for
\* boost 1), the color gradient is the native one whatever the boost, and
\* rast, tri, topology_hash and pos_gradient_boost get no gradient.
C13_BoostScalesPosOnly ==
    \A i \in 1..Len(aaBwd) :
       aaBwd[i].ran =>
          /\ aaBwd[i].g_pos_scale = aaFwd[i].pos_gradient_boost
          /\ (aaFwd[i].pos_gradient_boost = 1) => (aaBwd[i].g_pos_scale = 1)
          /\ aaBwd[i].g_color_scale = 1
          /\ ~aaBwd[i].g_others

\* two forwards were outstanding, the first with boost 2 and the second with
\* boost 1; the backward of the second ran first and left its position
\* gradient alone, the backward of the first doubled it
C13_Witness ==
    /\ Len(aaFwd) >= 2
    /\ aaFwd[1].pos_gradient_boost = 2 /\ aaFwd[2].pos_gradient_boost = 1
    /\ aaBwd[1].ran /\ aaBwd[2].ran /\ aaBwd[2].seen >= 2 /\ aaBwd[1].seen >= 2
    /\ aaBwd[1].g_pos_scale = 2 /\ aaBwd[2].g_pos_scale = 1
    /\ aaBwd[1].g_color_scale = 1

----------------------------------------------------------------------------
(* Properties of interpolate() *)

\* the caller supplied an attribute selection: 'all' or a non-empty index list
Selection(d) == d.kind = "all" \/ (d.kind = "list" /\ Len(d.val) > 0)

\* C12: an accepted interpolate() call runs interpolate_fwd_da, and its
\* backward interpolate_grad_da with a gradient for rast_db, exactly when a
\* rast_db tensor and a selection ('all' or a non-empty list) were given;
\* every other accepted call runs interpolate_fwd with an empty derivative
\* output, and its backward interpolate_grad with gradients for attr and rast
\* only; a selection without a rast_db tensor is refused before any native
\* call.
C12_VariantChoice ==
    /\ (itpPc # "idle" /\ itpRes.ok) =>
          /\ itpRes.fwd.fn \in {"interpolate_fwd_da", "interpolate_fwd"}
          /\ (itpRes.fwd.fn = "interpolate_fwd_da")
                <=> (itpArgs.rast_db \in AttrTensors /\ Selection(itpArgs.diff_attrs))
          /\ (itpRes.fwd.fn = "interpolate_fwd") => itpRes.out_da_channels = 0
    /\ itpPc = "backward" =>
          /\ (itpGrad.fn = "interpolate_grad_da")
                <=> (itpRes.fwd.fn = "interpolate_fwd_da")
          /\ (itpGrad.fn = "interpolate_grad")
                <=> (itpRes.fwd.fn = "interpolate_fwd")
          /\ itpGrad.g_attr /\ itpGrad.g_rast
          /\ ~itpGrad.g_tri /\ ~itpGrad.g_diff_attrs
          /\ itpGrad.g_rast_db <=> (itpGrad.fn = "interpolate_grad_da")
    /\ (itpPc # "idle" /\ Selection(itpArgs.diff_attrs)
           /\ itpArgs.rast_db \notin AttrTensors) =>
          (~itpRes.ok /\ itpRes.fwd.fn = "none")

\* a call with a rast_db tensor and a one-index list ran the derivative
\* variant forward and backward
C12_Witness ==
    /\ itpPc = "backward"
    /\ itpArgs.rast_db = "rast_db" /\ itpArgs.diff_attrs.kind = "list"
    /\ Len(itpArgs.diff_attrs.val) = 1
    /\ itpRes.fwd.fn = "interpolate_fwd_da" /\ itpGrad.fn = "interpolate_grad_da"
    /\ itpGrad.g_rast_db

=============================================================================
